---------------------------- MODULE Spec2Model ----------------------------
(***************************************************************************)
(* Rough Set Decision Support Lab (src/app.py).                            *)
(*                                                                         *)
(* The page holds two number inputs (rows, cols), one text input per cell  *)
(* of the decision table, and a Run button.  Pressing Run validates the    *)
(* table and then performs four analyses in order: approximations,         *)
(* reducts, rules, conflicts.  The script runs from top to bottom on every *)
(* input, so a press of the button is one step.                            *)
(*                                                                         *)
(* Text is modelled as a sequence of code points, so that the f-string     *)
(* that renders a rule and Python's ordering of strings are computed and   *)
(* not assumed.  Object ids are the 0-based row labels of the DataFrame.   *)
(* Column names are the strings "A1" .. "A6" and "Decision".               *)
(***************************************************************************)
EXTENDS Integers, Sequences, FiniteSets

VARIABLES rows, cols, df, pc, error, out, approx, rds, rules, conflicts

vars == <<rows, cols, df, pc, error, out, approx, rds, rules, conflicts>>

-----------------------------------------------------------------------------
(* Bounds and program constants *)

\* Cells are filled in only while the table has at most this many cells,
\* rows * (cols + 1) <= MaxCells; a larger table is left blank.
MaxCells == 9

\* st.number_input("Number of rows (objects)", 2, 20, 6)
MinRows == 2
MaxRows == 20
DefaultRows == 6
\* st.number_input("Number of condition attributes", 1, 6, 3)
MinCols == 1
MaxCols == 6
DefaultCols == 3

\* The texts a cell is given:  ""  "a"  "a THEN Decision = a"
EmptyText == << >>
TextA == <<97>>
TextThen == <<32, 84, 72, 69, 78, 32, 68, 101, 99, 105, 115, 105, 111, 110, 32, 61, 32>>
Values == {EmptyText, TextA, TextA \o TextThen \o TextA}

\* f"A{i+1}" for i in range(cols), as column labels
ColumnNames == <<"A1", "A2", "A3", "A4", "A5", "A6">>

attr_names_of(n) == [i \in 1..n |-> ColumnNames[i]]

attr_names == attr_names_of(cols)

columns_of(n) == {ColumnNames[i] : i \in 1..n} \cup {"Decision"}

\* The label of a column as text: "A" and one digit, or "Decision".
NameText(c) ==
    IF c = "Decision"
    THEN <<68, 101, 99, 105, 115, 105, 111, 110>>
    ELSE LET i == CHOOSE k \in 1..Len(ColumnNames) : ColumnNames[k] = c
         IN  <<65, 48 + i>>

-----------------------------------------------------------------------------
(* Helpers for Python's lists, sets and sorted() *)

Range(s) == {s[k] : k \in 1..Len(s)}

NumRows(t) == Cardinality(DOMAIN t)

\* Python's str ordering: lexicographic by code point, a proper prefix first.
StrLess(s, t) ==
    \E k \in 0..Len(s) :
        /\ k <= Len(t)
        /\ \A j \in 1..k : s[j] = t[j]
        /\ \/ k = Len(s) /\ k < Len(t)
           \/ k < Len(s) /\ k < Len(t) /\ s[k + 1] < t[k + 1]

RECURSIVE sorted_ints(_)
sorted_ints(S) ==
    IF S = {} THEN << >>
    ELSE LET m == CHOOSE x \in S : \A y \in S : x <= y
         IN  <<m>> \o sorted_ints(S \ {m})

RECURSIVE sorted_strs(_)
sorted_strs(S) ==
    IF S = {} THEN << >>
    ELSE LET m == CHOOSE x \in S : \A y \in S \ {x} : StrLess(x, y)
         IN  <<m>> \o sorted_strs(S \ {m})

\* sep.join(parts)
RECURSIVE join(_, _)
join(sep, parts) ==
    IF parts = << >> THEN << >>
    ELSE IF Len(parts) = 1 THEN parts[1]
    ELSE parts[1] \o sep \o join(sep, Tail(parts))

\* itertools.combinations(s, r): r-length subsequences in position order.
RECURSIVE combinations(_, _)
combinations(s, r) ==
    IF r = 0 THEN << << >> >>
    ELSE IF Len(s) < r THEN << >>
    ELSE LET rest == combinations(Tail(s), r - 1)
         IN  [k \in 1..Len(rest) |-> <<Head(s)>> \o rest[k]]
             \o combinations(Tail(s), r)

\* Series.unique(): the distinct values in order of first occurrence.
RECURSIVE unique_from(_, _, _)
unique_from(t, idx, seen) ==
    IF idx = NumRows(t) THEN seen
    ELSE IF t[idx]["Decision"] \in Range(seen)
         THEN unique_from(t, idx + 1, seen)
         ELSE unique_from(t, idx + 1, Append(seen, t[idx]["Decision"]))

unique_decisions(t) == unique_from(t, 0, << >>)

-----------------------------------------------------------------------------
(* Core functions *)

\* The loop of equivalence_classes: groups is the dict in insertion order,
\* as a sequence of (key, ids) entries.
RECURSIVE group_rows(_, _, _, _)
group_rows(t, attributes, idx, groups) ==
    IF idx = NumRows(t) THEN groups
    ELSE LET key == [k \in 1..Len(attributes) |-> t[idx][attributes[k]]]
             hit == {g \in 1..Len(groups) : groups[g].key = key}
         IN  IF hit = {}
             THEN group_rows(t, attributes, idx + 1,
                             Append(groups, [key |-> key, ids |-> <<idx>>]))
             ELSE LET g == CHOOSE h \in hit : TRUE
                  IN  group_rows(t, attributes, idx + 1,
                                 [groups EXCEPT ![g].ids = Append(@, idx)])

\* Variant: the key is built from the first attribute only.
equivalence_classes_first_only(t, attributes) ==
    LET groups == group_rows(t, <<attributes[1]>>, 0, << >>)
    IN  [g \in 1..Len(groups) |-> groups[g].ids]

equivalence_classes(t, attributes) ==
    LET groups == group_rows(t, attributes, 0, << >>)
    IN  [g \in 1..Len(groups) |-> groups[g].ids]

\* set(df.loc[cls]["Decision"])
decs_of(t, cls) == {t[cls[k]]["Decision"] : k \in 1..Len(cls)}

\* The loop of lower_upper over the classes, from class number g on.
RECURSIVE lower_upper_from(_, _, _, _, _, _)
lower_upper_from(t, eq, decision_value, g, lower, upper) ==
    IF g > Len(eq) THEN [lower |-> lower, upper |-> upper]
    ELSE LET cls == eq[g]
             decs == decs_of(t, cls)
         IN  IF decs = {decision_value}
             THEN lower_upper_from(t, eq, decision_value, g + 1,
                                   lower \o cls, upper \o cls)
             ELSE IF decision_value \in decs
             THEN lower_upper_from(t, eq, decision_value, g + 1,
                                   lower, upper \o cls)
             ELSE lower_upper_from(t, eq, decision_value, g + 1, lower, upper)

\* Variant: the lists are returned as built, without sorted(set(...)).
lower_upper_unsorted(t, attrs, decision_value) ==
    lower_upper_from(t, equivalence_classes(t, attrs),
                     decision_value, 1, << >>, << >>)

\* Variant: the two lists are returned in the other order.
lower_upper_swapped(t, attrs, decision_value) ==
    LET lu == lower_upper_from(t, equivalence_classes(t, attrs),
                               decision_value, 1, << >>, << >>)
    IN  [lower |-> sorted_ints(Range(lu.upper)),
         upper |-> sorted_ints(Range(lu.lower))]

lower_upper(t, attrs, decision_value) ==
    LET lu == lower_upper_from(t, equivalence_classes(t, attrs),
                               decision_value, 1, << >>, << >>)
    IN  [lower |-> sorted_ints(Range(lu.lower)),
         upper |-> sorted_ints(Range(lu.upper))]

\* All combinations of sizes r .. len(attrs), in the order reducts tries them.
RECURSIVE combos_from(_, _)
combos_from(attrs, r) ==
    IF r > Len(attrs) THEN << >>
    ELSE combinations(attrs, r) \o combos_from(attrs, r + 1)

\* Variant: range(1, len(attrs)), the full attribute list is never tried.
reducts_proper_only(t, attrs) ==
    LET full == equivalence_classes(t, attrs)
        Keeps(combo) == equivalence_classes(t, combo) = full /\ combo # attrs
    IN  SelectSeq(combos_from(attrs, 1), Keeps)

\* Variant: a combination is kept only when no smaller kept one is inside it.
reducts_minimal_only(t, attrs) ==
    LET full == equivalence_classes(t, attrs)
        all == combos_from(attrs, 1)
        Keeps(combo) == equivalence_classes(t, combo) = full
        Minimal(combo) ==
            /\ Keeps(combo)
            /\ \A k \in 1..Len(all) :
                  (Range(all[k]) \subseteq Range(combo) /\ all[k] # combo)
                      => ~Keeps(all[k])
    IN  SelectSeq(all, Minimal)

reducts(t, attrs) ==
    LET full == equivalence_classes(t, attrs)
        Keeps(combo) == equivalence_classes(t, combo) = full
    IN  SelectSeq(combos_from(attrs, 1), Keeps)

\* f"IF " + " AND ".join(f"{a}={df.loc[idx, a]}" for a in attrs)
\*        + f" THEN Decision = {decision}"
rule_text(t, attrs, idx, decision) ==
    LET cond == [k \in 1..Len(attrs) |->
                    NameText(attrs[k]) \o <<61>> \o t[idx][attrs[k]]]
    IN  <<73, 70, 32>> \o join(<<32, 65, 78, 68, 32>>, cond)
            \o TextThen \o decision

\* The rules list of extract_rules before sorted(set(rules)).
RECURSIVE rules_from(_, _, _, _)
rules_from(t, attrs, decisions, n) ==
    IF n > Len(decisions) THEN << >>
    ELSE LET decision == decisions[n]
             lower == lower_upper(t, attrs, decision).lower
         IN  [k \in 1..Len(lower) |-> rule_text(t, attrs, lower[k], decision)]
             \o rules_from(t, attrs, decisions, n + 1)

extract_rules(t, attrs) ==
    sorted_strs(Range(rules_from(t, attrs, unique_decisions(t), 1)))

\* Variant: len(decs) >= 1.
inconsistent_objects_any(t, attrs) ==
    LET eq == equivalence_classes(t, attrs)
        picked == eq
    IN  [k \in 1..Len(picked) |->
            [cls |-> picked[k], decs |-> decs_of(t, picked[k])]]

\* A conflict is (cls, list(decs)); the order of list(decs) is the iteration
\* order of a Python set, which the language leaves open, so the model keeps
\* the values as a set.
inconsistent_objects(t, attrs) ==
    LET eq == equivalence_classes(t, attrs)
        Mixed(cls) == Cardinality(decs_of(t, cls)) > 1
        picked == SelectSeq(eq, Mixed)
    IN  [k \in 1..Len(picked) |->
            [cls |-> picked[k], decs |-> decs_of(t, picked[k])]]

\* boundary = sorted(set(upper) - set(lower))
boundary(lower, upper) == sorted_ints(Range(upper) \ Range(lower))

\* Variant: 1 in place of 0 when upper is empty.
accuracy_one_when_empty(lower, upper) ==
    IF Len(upper) # 0 THEN <<Len(lower), Len(upper)>> ELSE <<1, 1>>

\* accuracy = len(lower) / len(upper) if len(upper) else 0, kept as the exact
\* fraction <<numerator, denominator>>; 0 is <<0, 1>>.
accuracy(lower, upper) ==
    IF Len(upper) # 0 THEN <<Len(lower), Len(upper)>> ELSE <<0, 1>>

\* Variant: only the condition columns are looked at.
incomplete_conditions_only(t) ==
    \E i \in DOMAIN t : \E c \in DOMAIN t[i] \ {"Decision"} : t[i][c] = EmptyText

\* df.isna().any().any() or (df == "").any().any(); a text input always
\* yields a string, so a missing cell is the empty string.
incomplete(t) == \E i \in DOMAIN t : \E c \in DOMAIN t[i] : t[i][c] = EmptyText

\* One entry of the approximations section, for decision d.
approximation(t, attrs, d) ==
    LET lu == lower_upper(t, attrs, d)
    IN  [d |-> d, lower |-> lu.lower, upper |-> lu.upper,
         boundary |-> boundary(lu.lower, lu.upper),
         accuracy |-> accuracy(lu.lower, lu.upper)]

-----------------------------------------------------------------------------
(* The page *)

NoResults ==
    /\ error' = FALSE
    /\ out' = << >>
    /\ approx' = << >>
    /\ rds' = << >>
    /\ rules' = << >>
    /\ conflicts' = << >>

EmptyRow(n) == [c \in columns_of(n) |-> EmptyText]

\* No text input holds a text.
Blank(t) == \A i \in DOMAIN t : \A c \in DOMAIN t[i] : t[i][c] = EmptyText

\* The first run of the script: the number inputs at their defaults, every
\* text input blank, the button not pressed.
Init ==
    /\ rows = DefaultRows
    /\ cols = DefaultCols
    /\ df = [i \in 0..(DefaultRows - 1) |-> EmptyRow(DefaultCols)]
    /\ pc = "idle"
    /\ error = FALSE
    /\ out = << >>
    /\ approx = << >>
    /\ rds = << >>
    /\ rules = << >>
    /\ conflicts = << >>

\* The rows number input changes: the script reruns, rows that remain keep
\* their widgets' texts, new rows start empty.
SetRows(n) ==
    /\ n \in MinRows..MaxRows
    /\ n # rows
    /\ n * (cols + 1) <= MaxCells \/ Blank(df)
    /\ rows' = n
    /\ df' = [i \in 0..(n - 1) |-> IF i < rows THEN df[i] ELSE EmptyRow(cols)]
    /\ pc' = "idle"
    /\ NoResults
    /\ UNCHANGED cols

\* The cols number input changes.
SetCols(n) ==
    /\ n \in MinCols..MaxCols
    /\ n # cols
    /\ rows * (n + 1) <= MaxCells \/ Blank(df)
    /\ cols' = n
    /\ df' = [i \in 0..(rows - 1) |->
                [c \in columns_of(n) |->
                    IF c \in columns_of(cols) THEN df[i][c] ELSE EmptyText]]
    /\ pc' = "idle"
    /\ NoResults
    /\ UNCHANGED rows

\* A text input changes: the script reruns without the button pressed.
SetCell(i, c, v) ==
    /\ rows * (cols + 1) <= MaxCells
    /\ i \in 0..(rows - 1)
    /\ c \in columns_of(cols)
    /\ v \in Values
    /\ v # df[i][c]
    /\ df' = [df EXCEPT ![i][c] = v]
    /\ pc' = "idle"
    /\ NoResults
    /\ UNCHANGED <<rows, cols>>

\* The sections a full run shows, in the order the script writes them.
Sections == <<"approximations", "reducts", "rules", "conflicts", "completed">>

\* The Run button: the script reruns with the button pressed.  VALIDATE
\* shows the error and stops the script; otherwise the four sections are
\* computed and shown one after the other, then the completion message.
Run ==
    /\ IF incomplete(df)
       THEN /\ error' = TRUE
            /\ pc' = "stopped"
            /\ out' = << >>
            /\ approx' = << >>
            /\ rds' = << >>
            /\ rules' = << >>
            /\ conflicts' = << >>
       ELSE /\ error' = FALSE
            /\ LET decisions == unique_decisions(df)
               IN  approx' = [n \in 1..Len(decisions) |->
                                 approximation(df, attr_names, decisions[n])]
            /\ rds' = reducts(df, attr_names)
            /\ rules' = extract_rules(df, attr_names)
            /\ conflicts' = inconsistent_objects(df, attr_names)
            /\ out' = Sections
            /\ pc' = "done"
    /\ UNCHANGED <<rows, cols, df>>

Next ==
    \/ \E n \in MinRows..MaxRows : SetRows(n)
    \/ \E n \in MinCols..MaxCols : SetCols(n)
    \/ \E i \in 0..(rows - 1) : \E c \in columns_of(cols) : \E v \in Values :
          SetCell(i, c, v)
    \/ Run

Spec == Init /\ [][Next]_vars

-----------------------------------------------------------------------------
(* Rough-set notions, stated without the program's loops *)

Pos(c) == CHOOSE k \in 1..Len(ColumnNames) : ColumnNames[k] = c

\* The names of set I as a list in column order.
AsList(I) ==
    LET ps == sorted_ints({Pos(c) : c \in I})
    IN  [k \in 1..Len(ps) |-> ColumnNames[ps[k]]]

\* Every non-empty sub-list of attrs that keeps the order of attrs.
SubLists(attrs) == {AsList(I) : I \in (SUBSET Range(attrs)) \ {{}}}

Indiscernible(t, S, i, j) == \A a \in S : t[i][a] = t[j][a]

ClassOf(t, S, i) == {j \in DOMAIN t : Indiscernible(t, S, i, j)}

Partition(t, S) == {ClassOf(t, S, i) : i \in DOMAIN t}

DecisionsIn(t, X) == {t[j]["Decision"] : j \in X}

Increasing(s) == \A k \in 1..(Len(s) - 1) : s[k] < s[k + 1]

StrIncreasing(s) == \A k \in 1..(Len(s) - 1) : StrLess(s[k], s[k + 1])

LowerSet(t, S, d) == {i \in DOMAIN t : DecisionsIn(t, ClassOf(t, S, i)) = {d}}

UpperSet(t, S, d) == {i \in DOMAIN t : d \in DecisionsIn(t, ClassOf(t, S, i))}

Homogeneous(t, S) == {X \in Partition(t, S) : Cardinality(DecisionsIn(t, X)) = 1}

Mixed(t, S) == {X \in Partition(t, S) : Cardinality(DecisionsIn(t, X)) > 1}

\* The decision table's invariant: every cell is present and non-empty.
\* The run block calls the core functions after VALIDATE only, so these are
\* the tables they are given.
Complete(t) == \A i \in DOMAIN t : \A c \in DOMAIN t[i] : t[i][c] # << >>

-----------------------------------------------------------------------------
(* C1 *)

\* C1: for every complete table and non-empty list S of condition attributes,
\* equivalence_classes(df, S) is a partition of the object ids: no group is
\* empty, no id occurs twice, every id occurs, and two ids share a group
\* exactly when their rows agree on every attribute of S.
C1_ValidPartition ==
    Complete(df) =>
        \A S \in SubLists(attr_names) :
            LET eq == equivalence_classes(df, S)
            IN  /\ \A g \in 1..Len(eq) : eq[g] # << >>
                /\ \A g \in 1..Len(eq) : Cardinality(Range(eq[g])) = Len(eq[g])
                /\ \A g, h \in 1..Len(eq) :
                      g # h => Range(eq[g]) \cap Range(eq[h]) = {}
                /\ UNION {Range(eq[g]) : g \in 1..Len(eq)} = DOMAIN df
                /\ \A i, j \in DOMAIN df :
                      (\E g \in 1..Len(eq) : {i, j} \subseteq Range(eq[g]))
                          <=> Indiscernible(df, Range(S), i, j)

\* A complete table has been analysed in which two attributes together split
\* the objects into a group of several objects and at least one more group,
\* and the first attribute alone does not.
C1_Witness ==
    /\ pc = "done"
    /\ \E S \in SubLists(attr_names) :
          LET eq == equivalence_classes(df, S)
          IN  /\ Len(S) > 1
              /\ Len(eq) > 1
              /\ \E g \in 1..Len(eq) : Len(eq[g]) > 1
              /\ Partition(df, Range(S)) # Partition(df, {S[1]})

-----------------------------------------------------------------------------
(* C2 *)

\* C2: for every complete table, attribute list S and decision value d,
\* lower_upper returns as lower the ids whose class has d as its only
\* decision and as upper the ids whose class has d among its decisions,
\* both strictly increasing; both are empty when no object has decision d.
C2_LowerUpper ==
    Complete(df) =>
        \A S \in SubLists(attr_names) : \A d \in Values :
            LET lu == lower_upper(df, S, d)
            IN  /\ Increasing(lu.lower)
                /\ Increasing(lu.upper)
                /\ Range(lu.lower) = LowerSet(df, Range(S), d)
                /\ Range(lu.upper) = UpperSet(df, Range(S), d)
                /\ d \notin DecisionsIn(df, DOMAIN df)
                      => lu.lower = << >> /\ lu.upper = << >>

\* A complete table has been analysed where, for one decision, a later class
\* precedes an earlier id (the lists are built out of order), lower is not
\* empty and upper is larger; another value is the decision of no object.
C2_Witness ==
    /\ pc = "done"
    /\ \E d \in Values :
          LET raw == lower_upper_unsorted(df, attr_names, d)
              lu == lower_upper(df, attr_names, d)
          IN  /\ ~Increasing(raw.upper)
              /\ lu.lower # << >>
              /\ Len(lu.upper) > Len(lu.lower)
    /\ \E d \in Values : d \notin DecisionsIn(df, DOMAIN df)

-----------------------------------------------------------------------------
(* C3 *)

\* C3: for every complete table and attribute list attrs, reducts(df, attrs),
\* which compares partitions as lists of lists, lists each once and by size
\* exactly the non-empty sub-lists of attrs whose partition is the partition
\* under attrs as a set of sets of ids; attrs itself is listed.
C3_Reducts ==
    Complete(df) =>
        \A attrs \in SubLists(attr_names) :
            LET r == reducts(df, attrs)
            IN  /\ \A k, l \in 1..Len(r) : k # l => r[k] # r[l]
                /\ \A k, l \in 1..Len(r) : k < l => Len(r[k]) <= Len(r[l])
                /\ Range(r) =
                      {c \in SubLists(attrs) :
                          Partition(df, Range(c)) = Partition(df, Range(attrs))}
                /\ attrs \in Range(r)

\* A run has ended on a table where one proper sub-list keeps the
\* partition and another does not, and the partition has a group of several
\* objects that does not come first.
C3_Witness ==
    /\ pc = "done"
    /\ \E c \in SubLists(attr_names) : c # attr_names /\ c \in Range(rds)
    /\ \E c \in SubLists(attr_names) : c \notin Range(rds)
    /\ LET full == equivalence_classes(df, attr_names)
       IN  \E g \in 2..Len(full) : Len(full[g]) > 1

-----------------------------------------------------------------------------
(* C4 *)

\* C4: for every complete table and attribute list attrs,
\* inconsistent_objects reports each
\* class with more than one decision exactly once, with the class's ids and
\* the set of its decisions, and nothing else; so it reports nothing exactly
\* when every class has one decision.
C4_Conflicts ==
    Complete(df) =>
        \A attrs \in SubLists(attr_names) :
            LET c == inconsistent_objects(df, attrs)
            IN  /\ \A k \in 1..Len(c) :
                      /\ Range(c[k].cls) \in Mixed(df, Range(attrs))
                      /\ Increasing(c[k].cls)
                      /\ c[k].decs = DecisionsIn(df, Range(c[k].cls))
                /\ \A X \in Mixed(df, Range(attrs)) :
                      Cardinality({k \in 1..Len(c) : Range(c[k].cls) = X}) = 1
                /\ c = << >> <=>
                      \A X \in Partition(df, Range(attrs)) :
                          Cardinality(DecisionsIn(df, X)) = 1

\* The run has ended with a conflict reported and a class left unreported.
C4_Witness ==
    /\ pc = "done"
    /\ Len(conflicts) >= 1
    /\ Homogeneous(df, Range(attr_names)) # {}

-----------------------------------------------------------------------------
(* C5 *)

RuleOfClass(t, attrs, X) ==
    LET i == CHOOSE j \in X : TRUE
    IN  rule_text(t, attrs, i, t[i]["Decision"])

\* C5: at the end of a run, rules is strictly sorted and holds
\* exactly one rule for each class whose objects share one decision, the
\* rendering of that class's values and decision: as many rules as there are
\* such classes.
C5_OneRulePerClass ==
    pc = "done" =>
        LET H == Homogeneous(df, Range(attr_names))
        IN  /\ StrIncreasing(rules)
            /\ Range(rules) = {RuleOfClass(df, attr_names, X) : X \in H}
            /\ Len(rules) = Cardinality(H)

-----------------------------------------------------------------------------
(* C6 *)

NothingComputed ==
    /\ out = << >>
    /\ approx = << >>
    /\ rds = << >>
    /\ rules = << >>
    /\ conflicts = << >>

C6_StateOk ==
    /\ pc \in {"idle", "stopped", "done"}
    /\ pc = "idle" => ~error /\ NothingComputed
    /\ pc = "stopped" => error /\ ~Complete(df) /\ NothingComputed
    /\ pc = "done" => ~error /\ Complete(df) /\ out = Sections

\* A step that ends a run: it leaves the table alone, and its outcome is
\* decided by the table's completeness.
C6_StepOk ==
    pc' \in {"stopped", "done"} =>
        /\ df' = df
        /\ IF Complete(df)
           THEN /\ pc' = "done"
                /\ ~error'
                /\ out' = <<"approximations", "reducts", "rules",
                            "conflicts", "completed">>
           ELSE /\ pc' = "stopped"
                /\ error'
                /\ NothingComputed'

\* C6: a run on a table with an empty cell, in a condition column or in the
\* Decision column, shows the error and stops with none of the four
\* analyses computed or shown; a run on a table with no empty cell shows
\* approximations, reducts, rules and conflicts in that order and then the
\* completion message.
C6_Run ==
    /\ [](C6_StateOk)
    /\ [][C6_StepOk]_vars

\* A run has stopped with the error on a table whose only empty cell is in
\* the Decision column.
C6_Witness ==
    /\ pc = "stopped"
    /\ error
    /\ \E i \in DOMAIN df :
          /\ df[i]["Decision"] = << >>
          /\ \A j \in DOMAIN df : \A c \in DOMAIN df[j] :
                df[j][c] = << >> => (j = i /\ c = "Decision")

-----------------------------------------------------------------------------
(* C7 *)

\* C7: for every complete table, attribute list S and decision value d,
\* lower is inside
\* upper, the boundary shares no id with lower, and lower with the boundary
\* is upper.
C7_LowerInUpper ==
    Complete(df) =>
        \A S \in SubLists(attr_names) : \A d \in Values :
            LET lu == lower_upper(df, S, d)
                b == boundary(lu.lower, lu.upper)
            IN  /\ Range(lu.lower) \subseteq Range(lu.upper)
                /\ Range(b) \cap Range(lu.lower) = {}
                /\ Range(lu.lower) \cup Range(b) = Range(lu.upper)

\* The run has shown a decision with a certain object and a boundary object.
C7_Witness ==
    /\ pc = "done"
    /\ \E n \in 1..Len(approx) :
          approx[n].lower # << >> /\ approx[n].boundary # << >>

-----------------------------------------------------------------------------
(* C8 *)

IsZero(q) == q[1] = 0

IsOne(q) == q[1] = q[2]

InUnit(q) == q[2] > 0 /\ 0 <= q[1] /\ q[1] <= q[2]

\* C8 as stated: for every complete table, attribute list S and text d, the
\* accuracy
\* lies in [0,1], is 1 exactly when the boundary is empty, and is 0 when
\* upper is empty.
C8_AccuracyAsStated ==
    Complete(df) =>
        \A S \in SubLists(attr_names) : \A d \in Values :
            LET lu == lower_upper(df, S, d)
                b == boundary(lu.lower, lu.upper)
                q == accuracy(lu.lower, lu.upper)
            IN  /\ InUnit(q)
                /\ IsOne(q) <=> b = << >>
                /\ lu.upper = << >> => IsZero(q)

\* C8 amended: for every complete table, attribute list S and text d, the
\* accuracy
\* lies in [0,1], is 0 when upper is empty, and is 1 exactly when the
\* boundary is empty and upper is not.
C8_Accuracy ==
    Complete(df) =>
        \A S \in SubLists(attr_names) : \A d \in Values :
            LET lu == lower_upper(df, S, d)
                b == boundary(lu.lower, lu.upper)
                q == accuracy(lu.lower, lu.upper)
            IN  /\ InUnit(q)
                /\ IsOne(q) <=> (b = << >> /\ lu.upper # << >>)
                /\ lu.upper = << >> => IsZero(q)

\* A run has shown a decision with accuracy 1 and no boundary, while some
\* non-empty text is the decision of no object, so that its upper
\* approximation is empty.
C8_Witness ==
    /\ pc = "done"
    /\ \E n \in 1..Len(approx) :
          IsOne(approx[n].accuracy) /\ approx[n].boundary = << >>
    /\ \E d \in Values \ {EmptyText} :
          lower_upper(df, attr_names, d).upper = << >>

-----------------------------------------------------------------------------
(* C9 *)

\* C9: for every complete table and attribute list attrs, whenever
\* reducts(df, attrs) lists S
\* it lists every sub-list T of attrs that contains S.
C9_SupersetClosed ==
    Complete(df) =>
        \A attrs \in SubLists(attr_names) :
            LET r == reducts(df, attrs)
            IN  \A S \in Range(r) : \A T \in SubLists(attrs) :
                    Range(S) \subseteq Range(T) => T \in Range(r)

\* A run has listed a sub-list, a proper superset of it that is
\* not the whole attribute list, and has left some sub-list out.
C9_Witness ==
    /\ pc = "done"
    /\ \E S, T \in Range(rds) :
          /\ Range(S) \subseteq Range(T)
          /\ S # T
          /\ T # attr_names
    /\ \E c \in SubLists(attr_names) : c \notin Range(rds)

-----------------------------------------------------------------------------
(* C10 *)

InConflict(i) == \E k \in 1..Len(conflicts) : i \in Range(conflicts[k].cls)

InOwnBoundary(i) ==
    \E n \in 1..Len(approx) :
        approx[n].d = df[i]["Decision"] /\ i \in Range(approx[n].boundary)

InSomeLower(i) == \E n \in 1..Len(approx) : i \in Range(approx[n].lower)

\* A rule of the rules section reads as the object's values and decision.
Covered(i) == rule_text(df, attr_names, i, df[i]["Decision"]) \in Range(rules)

\* The part of C10 that is about approximations and conflicts: an object is
\* in a reported conflict exactly when it is in the boundary of its own
\* decision, exactly when it is in no lower approximation; each object is in
\* at most one conflict; lower approximations of two decisions are disjoint.
C10_Regions ==
    /\ \A i \in DOMAIN df :
          /\ InConflict(i) <=> InOwnBoundary(i)
          /\ InConflict(i) <=> ~InSomeLower(i)
          /\ Cardinality({k \in 1..Len(conflicts) :
                             i \in Range(conflicts[k].cls)}) <= 1
    /\ \A n, m \in 1..Len(approx) :
          n # m => Range(approx[n].lower) \cap Range(approx[m].lower) = {}

\* That part holds at the end of every run.
C10_RegionsAtEnd == pc = "done" => C10_Regions

\* C10: at the end of a run the analyses agree, and every object is either
\* covered by a rule with its own decision or in exactly one conflict,
\* never both.
C10_AnalysesAgree ==
    pc = "done" =>
        /\ C10_Regions
        /\ \A i \in DOMAIN df : Covered(i) <=> ~InConflict(i)

=============================================================================
